---- MODULE Spec2Model ----
(***************************************************************************)
(* DatabaseManager (src/database_manager.py): a facade over one sqlite3    *)
(* connection.  A Python string is a sequence of one-character strings, a  *)
(* Python value is a tagged record, the store is the set of tables of the  *)
(* database file with their columns and rows.  Each public method is one   *)
(* action; the statement text it formats is handed to a model of           *)
(* sqlite3.Cursor.execute, which parses that text again.                   *)
(***************************************************************************)
EXTENDS Integers, Sequences, FiniteSets, TLC

VARIABLES
    conn,       \* "none": no manager constructed, "open", "closed"
    tables,     \* the store: table name -> [columns, rows]
    call,       \* the last call on the manager: arguments and what it did
    inserted    \* table name -> rows of the insert_data calls that returned

vars == <<conn, tables, call, inserted>>

\* Bound on the rows held by the store (guards insert_data).
MaxRows == 2

-----------------------------------------------------------------------------
(* Python values *)

PyStr(chars) == [tag |-> "str", s |-> chars, n |-> 0]
PyInt(i) == [tag |-> "int", s |-> <<>>, n |-> i]
PyNone == [tag |-> "none", s |-> <<>>, n |-> 0]

\* isinstance(x, str)
isinstance_str(x) == x.tag = "str"

\* truth value of a str-or-None argument (`if condition:`)
truthy(x) == (x.tag = "str" /\ Len(x.s) > 0) \/ (x.tag = "int" /\ x.n # 0)

Digits == {"0", "1", "2", "3", "4", "5", "6", "7", "8", "9"}

IdStart ==
    {"a", "b", "c", "d", "e", "f", "g", "h", "i", "j", "k", "l", "m",
     "n", "o", "p", "q", "r", "s", "t", "u", "v", "w", "x", "y", "z",
     "A", "B", "C", "D", "E", "F", "G", "H", "I", "J", "K", "L", "M",
     "N", "O", "P", "Q", "R", "S", "T", "U", "V", "W", "X", "Y", "Z", "_"}

\* str.isidentifier(): non-empty, a letter or underscore first, then
\* letters, digits and underscores (keywords are identifiers too).  The
\* letters are the ASCII ones.
isidentifier(s) ==
    /\ Len(s) > 0
    /\ s[1] \in IdStart
    /\ \A i \in 2..Len(s) : s[i] \in IdStart \cup Digits

\* str.endswith(suffix)
endswith(s, suffix) ==
    /\ Len(s) >= Len(suffix)
    /\ SubSeq(s, Len(s) - Len(suffix) + 1, Len(s)) = suffix

\* sep.join(parts)
RECURSIVE join(_, _)
join(sep, parts) ==
    IF Len(parts) = 0 THEN <<>>
    ELSE IF Len(parts) = 1 THEN parts[1]
    ELSE parts[1] \o sep \o join(sep, Tail(parts))

-----------------------------------------------------------------------------
(* Validation *)

_validate_db_name_NoSuffixCheck(db_name) ==
    IF ~isinstance_str(db_name) THEN "ValueError" ELSE "ok"

_validate_db_name(db_name) ==
    IF ~isinstance_str(db_name) THEN "ValueError"
    ELSE IF ~endswith(db_name.s, <<".", "d", "b">>) THEN "ValueError"
    ELSE "ok"

_validate_table_name_AcceptAll(table_name) ==
    IF ~isinstance_str(table_name) THEN "ValueError" ELSE "ok"

_validate_table_name(table_name) ==
    IF ~isinstance_str(table_name) THEN "ValueError"
    ELSE IF ~isidentifier(table_name.s) THEN "ValueError"
    ELSE "ok"

\* The loop raises at the first entry that is no str or no identifier.
_validate_column_names(columns) ==
    IF \E i \in 1..Len(columns) :
           ~isinstance_str(columns[i]) \/ ~isidentifier(columns[i].s)
    THEN "ValueError"
    ELSE "ok"

-----------------------------------------------------------------------------
(* The store: sqlite3.Cursor.execute on the statement text *)

\* SQL compares names without regard to case; every name tried below is in
\* lower case, so names are compared as they are written.

\* Words of SQL that cannot name a table or a column.
SqlKeywords ==
    {<<"o", "r">>, <<"a", "s">>, <<"i", "n">>, <<"t", "o">>,
     <<"t", "a", "b", "l", "e">>, <<"s", "e", "l", "e", "c", "t">>}

IsSqlName(s) == isidentifier(s) /\ s \notin SqlKeywords

RECURSIVE Strip(_)
Strip(s) ==
    IF Len(s) > 0 /\ s[1] = " " THEN Strip(Tail(s))
    ELSE IF Len(s) > 0 /\ s[Len(s)] = " " THEN Strip(SubSeq(s, 1, Len(s) - 1))
    ELSE s

RECURSIVE Split(_, _)
Split(s, ch) ==
    IF \A i \in 1..Len(s) : s[i] # ch THEN <<s>>
    ELSE LET i == CHOOSE k \in 1..Len(s) :
                      s[k] = ch /\ \A j \in 1..(k - 1) : s[j] # ch
         IN  <<SubSeq(s, 1, i - 1)>> \o Split(SubSeq(s, i + 1, Len(s)), ch)

\* The comma-separated items of a parenthesised list, blanks trimmed.
ParseList(text) ==
    LET parts == Split(text, ",")
    IN  [i \in 1..Len(parts) |-> Strip(parts[i])]

\* The name of a column definition: its first word (a type or constraint
\* clause may follow it in SQL).
ColumnName(def) == Split(def, " ")[1]

DigitVal(c) ==
    CHOOSE n \in 0..9 :
        <<"0", "1", "2", "3", "4", "5", "6", "7", "8", "9">>[n + 1] = c

RECURSIVE DecVal(_)
DecVal(ds) ==
    IF Len(ds) = 0 THEN 0
    ELSE DecVal(SubSeq(ds, 1, Len(ds) - 1)) * 10 + DigitVal(ds[Len(ds)])

CmpOps == {">", "<", "="}

\* The predicates the store understands here: <column> <op> <integer>.
ParseCond(text) ==
    LET at == {i \in 1..Len(text) : text[i] \in CmpOps}
    IN  IF Cardinality(at) # 1
        THEN [ok |-> FALSE, col |-> <<>>, op |-> "", val |-> 0]
        ELSE LET i == CHOOSE k \in at : TRUE
                 left == Strip(SubSeq(text, 1, i - 1))
                 right == Strip(SubSeq(text, i + 1, Len(text)))
             IN  IF /\ IsSqlName(left)
                    /\ Len(right) > 0
                    /\ \A k \in 1..Len(right) : right[k] \in Digits
                 THEN [ok |-> TRUE, col |-> left, op |-> text[i],
                       val |-> DecVal(right)]
                 ELSE [ok |-> FALSE, col |-> <<>>, op |-> "", val |-> 0]

ColumnIndex(columns, col) == CHOOSE i \in 1..Len(columns) : columns[i] = col

\* SQL comparison of a stored value with an integer literal: integers
\* compare by value, text sorts after every number, NULL compares to nothing.
Compare(v, op, val) ==
    IF v.tag = "int"
    THEN CASE op = ">" -> v.n > val
           [] op = "<" -> v.n < val
           [] OTHER -> v.n = val
    ELSE IF v.tag = "str" THEN op = ">"
    ELSE FALSE

Satisfies(row, columns, cond) ==
    Compare(row[ColumnIndex(columns, cond.col)], cond.op, cond.val)

\* The table scan of a SELECT, in rowid order.
RECURSIVE Scan(_, _, _)
Scan(rows, columns, cond) ==
    IF Len(rows) = 0 THEN <<>>
    ELSE (IF Satisfies(rows[1], columns, cond) THEN <<rows[1]>> ELSE <<>>)
         \o Scan(Tail(rows), columns, cond)

StoreError == [err |-> TRUE, tables |-> tables, rows |-> <<>>]
StoreOk(db, rows) == [err |-> FALSE, tables |-> db, rows |-> rows]

ExecCreate(query) ==
    LET defs == ParseList(query.args)
        names == [i \in 1..Len(defs) |-> ColumnName(defs[i])]
    IN  IF ~IsSqlName(query.table) \/ \E i \in 1..Len(names) : ~IsSqlName(names[i])
        THEN StoreError                       \* syntax error
        ELSE IF query.table \in DOMAIN tables
        THEN StoreOk(tables, <<>>)            \* IF NOT EXISTS: nothing to do
        ELSE IF \E i, j \in 1..Len(names) : i # j /\ names[i] = names[j]
        THEN StoreError                       \* duplicate column name
        ELSE StoreOk(tables @@ (query.table :> [columns |-> names, rows |-> <<>>]),
                     <<>>)

ExecInsert(query, data) ==
    LET marks == ParseList(query.args)
    IN  IF ~IsSqlName(query.table) \/ \E i \in 1..Len(marks) : marks[i] # <<"?">>
        THEN StoreError                       \* syntax error
        ELSE IF query.table \notin DOMAIN tables
        THEN StoreError                       \* no such table
        ELSE IF Len(marks) # Len(tables[query.table].columns)
        THEN StoreError                       \* N columns but M values
        ELSE IF Len(data) # Len(marks)
        THEN StoreError                       \* wrong number of bindings
        ELSE StoreOk([tables EXCEPT ![query.table].rows = Append(@, data)], <<>>)

ExecSelect(query) ==
    IF ~IsSqlName(query.table) THEN StoreError
    ELSE IF query.table \notin DOMAIN tables THEN StoreError
    ELSE IF ~query.has_where
    THEN StoreOk(tables, tables[query.table].rows)
    ELSE LET cond == ParseCond(query.where)
             t == tables[query.table]
         IN  IF ~cond.ok THEN StoreError      \* syntax error
             ELSE IF \A i \in 1..Len(t.columns) : t.columns[i] # cond.col
             THEN StoreError                  \* no such column
             ELSE StoreOk(tables, Scan(t.rows, t.columns, cond))

\* self.cur.execute(query[, data]): fails on a closed connection.
cur_execute(query, data) ==
    IF conn # "open" THEN StoreError
    ELSE CASE query.verb = "CREATE" -> ExecCreate(query)
           [] query.verb = "INSERT" -> ExecInsert(query, data)
           [] OTHER -> ExecSelect(query)

-----------------------------------------------------------------------------
(* The methods of DatabaseManager: what a call returns or raises, and the  *)
(* store it leaves.                                                        *)

Raised(exc) ==
    [outcome |-> exc, tables |-> tables, result |-> <<>>,
     executes |-> 0, commits |-> 0, logs |-> 0]

\* As _execute_query, without `return self.cur.fetchall()`.
_execute_query_NoFetchall(query, data) ==
    LET r == IF Len(data) > 0 THEN cur_execute(query, data)
             ELSE cur_execute(query, <<>>)
    IN  IF r.err
        THEN [outcome |-> "StoreError", tables |-> r.tables, result |-> <<>>,
              executes |-> 1, commits |-> 0, logs |-> 1]
        ELSE [outcome |-> "ok", tables |-> r.tables, result |-> <<>>,
              executes |-> 1, commits |-> 1, logs |-> 0]

\* As _execute_query, with the `raise` of the except clause left out.
_execute_query_Swallows(query, data) ==
    LET r == IF Len(data) > 0 THEN cur_execute(query, data)
             ELSE cur_execute(query, <<>>)
    IN  IF r.err
        THEN [outcome |-> "ok", tables |-> r.tables, result |-> <<>>,
              executes |-> 1, commits |-> 0, logs |-> 1]
        ELSE [outcome |-> "ok", tables |-> r.tables, result |-> r.rows,
              executes |-> 1, commits |-> 1, logs |-> 0]

\* `if data:` chooses between execute(query, data) and execute(query);
\* a store error is logged and re-raised, otherwise commit and fetchall.
_execute_query(query, data) ==
    LET r == IF Len(data) > 0 THEN cur_execute(query, data)
             ELSE cur_execute(query, <<>>)
    IN  IF r.err
        THEN [outcome |-> "StoreError", tables |-> r.tables, result |-> <<>>,
              executes |-> 1, commits |-> 0, logs |-> 1]
        ELSE [outcome |-> "ok", tables |-> r.tables, result |-> r.rows,
              executes |-> 1, commits |-> 1, logs |-> 0]

\* The except clause of each method: log once more and re-raise.
Reraise(r) == IF r.outcome = "StoreError" THEN [r EXCEPT !.logs = @ + 1] ELSE r

\* f"CREATE TABLE IF NOT EXISTS {table_name} ({columns_str})"
create_table_sql(table_name, columns) ==
    [verb |-> "CREATE", table |-> table_name.s,
     args |-> join(<<",", " ">>, [i \in 1..Len(columns) |-> columns[i].s]),
     has_where |-> FALSE, where |-> <<>>]

\* f"INSERT INTO {table_name} VALUES ({placeholders})"
insert_sql(table_name, data) ==
    [verb |-> "INSERT", table |-> table_name.s,
     args |-> join(<<",", " ">>, [i \in 1..Len(data) |-> <<"?">>]),
     has_where |-> FALSE, where |-> <<>>]

\* As fetch_sql, with the condition never appended.
fetch_sql_NoWhere(table_name, condition) ==
    [verb |-> "SELECT", table |-> table_name.s, args |-> <<>>,
     has_where |-> FALSE, where |-> <<>>]

\* f"SELECT * FROM {table_name} WHERE {condition}" when `if condition:`
fetch_sql(table_name, condition) ==
    IF truthy(condition)
    THEN [verb |-> "SELECT", table |-> table_name.s, args |-> <<>>,
          has_where |-> TRUE, where |-> condition.s]
    ELSE [verb |-> "SELECT", table |-> table_name.s, args |-> <<>>,
          has_where |-> FALSE, where |-> <<>>]

create_table(table_name, columns) ==
    IF _validate_table_name(table_name) # "ok" THEN Raised("ValueError")
    ELSE IF _validate_column_names(columns) # "ok" THEN Raised("ValueError")
    ELSE LET r == Reraise(_execute_query(create_table_sql(table_name, columns), <<>>))
         IN  [r EXCEPT !.result = <<>>]

\* As insert_data, with a local check of the arity against the table.
insert_data_ArityCheck(table_name, data) ==
    IF _validate_table_name(table_name) # "ok" THEN Raised("ValueError")
    ELSE IF /\ table_name.s \in DOMAIN tables
            /\ Len(data) # Len(tables[table_name.s].columns)
    THEN Raised("ValueError")
    ELSE LET r == Reraise(_execute_query(insert_sql(table_name, data), data))
         IN  [r EXCEPT !.result = <<>>]

insert_data(table_name, data) ==
    IF _validate_table_name(table_name) # "ok" THEN Raised("ValueError")
    ELSE LET r == Reraise(_execute_query(insert_sql(table_name, data), data))
         IN  [r EXCEPT !.result = <<>>]

fetch_data(table_name, condition) ==
    IF _validate_table_name(table_name) # "ok" THEN Raised("ValueError")
    ELSE Reraise(_execute_query(fetch_sql(table_name, condition), <<>>))

-----------------------------------------------------------------------------
(* Arguments the calls are tried with *)

Chars_students == <<"s", "t", "u", "d", "e", "n", "t", "s">>

\* ["id INTEGER PRIMARY KEY", "name TEXT", "age INTEGER"]
StudentsColumns ==
    << PyStr(<<"i", "d", " ", "I", "N", "T", "E", "G", "E", "R", " ",
               "P", "R", "I", "M", "A", "R", "Y", " ", "K", "E", "Y">>),
       PyStr(<<"n", "a", "m", "e", " ", "T", "E", "X", "T">>),
       PyStr(<<"a", "g", "e", " ", "I", "N", "T", "E", "G", "E", "R">>) >>

Row_Alice == <<PyInt(1), PyStr(<<"A", "l", "i", "c", "e">>), PyInt(25)>>
Row_Bob == <<PyInt(2), PyStr(<<"B", "o", "b">>), PyInt(22)>>
Row_Justin == <<PyInt(3), PyStr(<<"J", "u", "s", "t", "i", "n">>), PyInt(18)>>
Row_Mike == <<PyInt(4), PyStr(<<"M", "i", "k", "e">>), PyInt(27)>>

\* "age > 23"
Cond_age == PyStr(<<"a", "g", "e", " ", ">", " ", "2", "3">>)

DbNames ==
    { PyStr(<<"m", "y", ".", "d", "b">>), PyStr(<<".", "d", "b">>),
      PyStr(<<"m", "y", ".", "t", "x", "t">>), PyStr(<<"d", "b">>),
      PyStr(<<>>), PyInt(7) }

TableNames ==
    { PyStr(<<"t">>), PyStr(Chars_students),
      PyStr(<<"1", "t">>), PyStr(<<"t", " ", "u">>),
      PyStr(<<"o", "r">>), PyInt(7) }

ColumnLists ==
    { <<PyStr(<<"a">>)>>, <<PyStr(<<"a">>), PyStr(<<"b">>)>>,
      <<>>, <<PyStr(<<"a">>), PyStr(<<"a">>)>>,
      <<PyStr(<<"a">>), PyInt(7)>>,
      StudentsColumns }

DataTuples ==
    { <<>>, <<PyInt(1)>>, <<PyInt(2)>>, <<PyInt(2), PyStr(<<"x">>)>>,
      Row_Alice, Row_Bob, Row_Justin, Row_Mike }

Conditions ==
    { PyNone, PyStr(<<>>),
      PyStr(<<"a", " ", ">", " ", "1">>), PyStr(<<"b", " ", ">", " ", "1">>),
      PyStr(<<"a", " ", ">">>), Cond_age }

-----------------------------------------------------------------------------
(* The calls *)

RECURSIVE TotalRows(_)
TotalRows(names) ==
    IF names = {} THEN 0
    ELSE LET t == CHOOSE x \in names : TRUE
         IN  Len(tables[t].rows) + TotalRows(names \ {t})

NoArgs == [name |-> PyNone, columns |-> <<>>, data |-> <<>>, condition |-> PyNone]

Record(op, args, r, connects) ==
    [op |-> op, name |-> args.name, columns |-> args.columns,
     data |-> args.data, condition |-> args.condition,
     outcome |-> r.outcome, result |-> r.result, executes |-> r.executes,
     commits |-> r.commits, logs |-> r.logs, connects |-> connects]

\* DatabaseManager(db_name); sqlite3.connect itself may fail.
__init__(db_name, connect_ok) ==
    /\ conn = "none"
    /\ IF _validate_db_name(db_name) # "ok"
       THEN /\ conn' = conn
            /\ call' = Record("__init__", [NoArgs EXCEPT !.name = db_name],
                              Raised("ValueError"), 0)
       ELSE IF ~connect_ok
       THEN /\ conn' = conn
            /\ call' = Record("__init__", [NoArgs EXCEPT !.name = db_name],
                              [Raised("StoreError") EXCEPT !.logs = 1], 1)
       ELSE /\ conn' = "open"
            /\ call' = Record("__init__", [NoArgs EXCEPT !.name = db_name],
                              Raised("ok"), 1)
    /\ UNCHANGED <<tables, inserted>>

Call_create_table(table_name, columns) ==
    /\ conn # "none"
    /\ LET r == create_table(table_name, columns)
       IN  /\ tables' = r.tables
           /\ call' = Record("create_table",
                             [NoArgs EXCEPT !.name = table_name, !.columns = columns],
                             r, 0)
    /\ UNCHANGED <<conn, inserted>>

Call_insert_data(table_name, data) ==
    /\ conn # "none"
    /\ TotalRows(DOMAIN tables) < MaxRows
    /\ LET r == insert_data(table_name, data)
       IN  /\ tables' = r.tables
           /\ call' = Record("insert_data",
                             [NoArgs EXCEPT !.name = table_name, !.data = data],
                             r, 0)
           /\ inserted' =
                  IF r.outcome # "ok" THEN inserted
                  ELSE IF table_name.s \in DOMAIN inserted
                  THEN [inserted EXCEPT ![table_name.s] = Append(@, data)]
                  ELSE inserted @@ (table_name.s :> <<data>>)
    /\ UNCHANGED conn

\* As Call_fetch_data, closing the connection once the rows are fetched.
Call_fetch_data_Closes(table_name, condition) ==
    /\ conn # "none"
    /\ LET r == fetch_data(table_name, condition)
       IN  /\ tables' = r.tables
           /\ call' = Record("fetch_data",
                             [NoArgs EXCEPT !.name = table_name,
                                            !.condition = condition],
                             r, 0)
    /\ conn' = "closed"
    /\ UNCHANGED inserted

Call_fetch_data(table_name, condition) ==
    /\ conn # "none"
    /\ LET r == fetch_data(table_name, condition)
       IN  /\ tables' = r.tables
           /\ call' = Record("fetch_data",
                             [NoArgs EXCEPT !.name = table_name,
                                            !.condition = condition],
                             r, 0)
    /\ UNCHANGED <<conn, inserted>>

\* self.conn.close(): closing a closed connection does nothing.
close_connection ==
    /\ conn # "none"
    /\ conn' = "closed"
    /\ call' = Record("close_connection", NoArgs, Raised("ok"), 0)
    /\ UNCHANGED <<tables, inserted>>

\* No manager yet, and a database file without tables.
Init ==
    /\ conn = "none"
    /\ tables = <<>>
    /\ inserted = <<>>
    /\ call = Record("none", NoArgs, Raised("ok"), 0)

Next ==
    \/ \E db_name \in DbNames, connect_ok \in BOOLEAN : __init__(db_name, connect_ok)
    \/ \E table_name \in TableNames, columns \in ColumnLists :
           Call_create_table(table_name, columns)
    \/ \E table_name \in TableNames, data \in DataTuples :
           Call_insert_data(table_name, data)
    \/ \E table_name \in TableNames, condition \in Conditions :
           Call_fetch_data(table_name, condition)
    \/ close_connection

Spec == Init /\ [][Next]_vars

-----------------------------------------------------------------------------
(* Properties *)

\* A valid identifier, as the callers of the facade understand it.
ValidIdentifier(x) == x.tag = "str" /\ isidentifier(x.s)

\* A column list the store accepts: at least one definition, each a name
\* optionally followed by a type or constraint clause, the names distinct.
ColumnDefinitions(columns) ==
    /\ Len(columns) > 0
    /\ \A i \in 1..Len(columns) :
           columns[i].tag = "str" /\ IsSqlName(ColumnName(columns[i].s))
    /\ \A i, j \in 1..Len(columns) :
           i # j => ColumnName(columns[i].s) # ColumnName(columns[j].s)

RECURSIVE IsSubseq(_, _)
IsSubseq(a, b) ==
    IF Len(a) = 0 THEN TRUE
    ELSE IF Len(b) = 0 THEN FALSE
    ELSE IF a[1] = b[1] THEN IsSubseq(Tail(a), Tail(b))
    ELSE IsSubseq(a, Tail(b))

RowsInserted(name) == IF name \in DOMAIN inserted THEN inserted[name] ELSE <<>>

\* C1: on an open manager, fetch_data(t) without a condition succeeds and
\* its result contains every row that a successful insert_data(t, r) put
\* into t, in the order of the inserts.
C1_FetchReturnsInsertedRowsInOrder ==
    ( /\ call.op = "fetch_data"
      /\ ~truthy(call.condition)
      /\ conn = "open"
      /\ ValidIdentifier(call.name)
      /\ RowsInserted(call.name.s) # <<>> )
    => /\ call.outcome = "ok"
       /\ IsSubseq(RowsInserted(call.name.s), call.result)

C1_Witness ==
    /\ call.op = "fetch_data"
    /\ ~truthy(call.condition)
    /\ call.outcome = "ok"
    /\ Len(call.result) = 2
    /\ call.result[1][1].n > call.result[2][1].n
    /\ RowsInserted(call.name.s) = call.result

\* C2: for an existing table t and a condition that is a valid predicate
\* over t's columns, fetch_data(t, condition) returns exactly the rows of t
\* that satisfy the condition, in table order.
C2_FetchReturnsExactlySatisfyingRows ==
    ( /\ call.op = "fetch_data"
      /\ conn = "open"
      /\ ValidIdentifier(call.name)
      /\ call.name.s \in DOMAIN tables
      /\ truthy(call.condition)
      /\ ParseCond(call.condition.s).ok
      /\ \E i \in 1..Len(tables[call.name.s].columns) :
             tables[call.name.s].columns[i] = ParseCond(call.condition.s).col )
    => LET t == tables[call.name.s]
           Holds(row) == Satisfies(row, t.columns, ParseCond(call.condition.s))
       IN  /\ call.outcome = "ok"
           /\ call.result = SelectSeq(t.rows, Holds)

C2_Witness ==
    /\ call.op = "fetch_data"
    /\ truthy(call.condition)
    /\ call.outcome = "ok"
    /\ call.name.s \in DOMAIN tables
    /\ Len(call.result) = 1
    /\ Len(tables[call.name.s].rows) = 2

C4_EveryCallAfterCloseRaisesStoreError ==
    [][ conn = "closed" => call'.outcome = "StoreError" ]_vars

\* C4 as amended: once the connection is closed, a create_table, insert_data
\* or fetch_data call whose arguments pass the validation raises a
\* StoreError, one whose arguments fail it raises the validation error, a
\* further close_connection returns without error, and none of them changes
\* the store or reopens the connection.
C4_CallsAfterClose ==
    [][ conn = "closed"
        => /\ conn' = "closed"
           /\ tables' = tables
           /\ call'.op \in {"create_table", "insert_data", "fetch_data",
                            "close_connection"}
           /\ call'.op = "close_connection" => call'.outcome = "ok"
           /\ call'.op # "close_connection"
              => IF /\ ValidIdentifier(call'.name)
                    /\ \A i \in 1..Len(call'.columns) :
                           ValidIdentifier(call'.columns[i])
                 THEN call'.outcome = "StoreError" /\ call'.executes = 1
                 ELSE call'.outcome = "ValueError" /\ call'.executes = 0 ]_vars

C4_Witness ==
    /\ conn = "closed"
    /\ call.op = "fetch_data"
    /\ call.name.s \in DOMAIN tables
    /\ Len(tables[call.name.s].rows) > 0
    /\ call.outcome = "StoreError"

\* C5: for a valid identifier t and a list of column definitions cols,
\* create_table(t, cols) on an open manager raises no error and leaves a
\* table named t; called a second time in a row it raises no error and
\* leaves the store as the first call left it.
C5_CreateTableIdempotent ==
    [][ ( /\ conn = "open"
          /\ call'.op = "create_table"
          /\ ValidIdentifier(call'.name) /\ IsSqlName(call'.name.s)
          /\ ColumnDefinitions(call'.columns) )
        => /\ call'.outcome = "ok"
           /\ call'.name.s \in DOMAIN tables'
           /\ ( /\ call.op = "create_table"
                /\ call.name = call'.name
                /\ call.columns = call'.columns )
              => tables' = tables ]_vars

\* C6: on a fresh database create_table("students", ["id INTEGER PRIMARY
\* KEY", "name TEXT", "age INTEGER"]) succeeds; once the four rows are
\* inserted, fetch_data("students") returns them in insertion order and
\* fetch_data("students", "age > 23") returns Alice's and Mike's rows.
C6_StudentsScenario ==
    /\ ( /\ call.op = "create_table"
         /\ conn = "open"
         /\ call.name = PyStr(Chars_students)
         /\ call.columns = StudentsColumns )
       => call.outcome = "ok" /\ Chars_students \in DOMAIN tables
    /\ ( /\ call.op = "fetch_data"
         /\ conn = "open"
         /\ call.name = PyStr(Chars_students)
         /\ RowsInserted(Chars_students)
                = <<Row_Alice, Row_Bob, Row_Justin, Row_Mike>> )
       => /\ call.condition = PyNone
             => call.result = <<Row_Alice, Row_Bob, Row_Justin, Row_Mike>>
          /\ call.condition = Cond_age
             => call.result = <<Row_Alice, Row_Mike>>

\* C7: DatabaseManager(db_name) with a db_name that is no string, or a
\* string not ending in ".db", raises the validation error without a
\* connection attempt and leaves no open connection; a connection is
\* attempted only for a string ending in ".db".
C7_DbNameValidatedBeforeConnect ==
    call.op = "__init__"
    => LET ends_in_db ==
               /\ call.name.tag = "str"
               /\ Len(call.name.s) >= 3
               /\ call.name.s[Len(call.name.s) - 2] = "."
               /\ call.name.s[Len(call.name.s) - 1] = "d"
               /\ call.name.s[Len(call.name.s)] = "b"
       IN  /\ ~ends_in_db
              => call.outcome = "ValueError" /\ call.connects = 0 /\ conn = "none"
           /\ (call.connects > 0 \/ conn = "open") => ends_in_db

C7_Witness ==
    /\ call.op = "__init__"
    /\ call.name.tag = "str"
    /\ Len(call.name.s) > 3
    /\ call.outcome = "ValueError"
    /\ conn = "none"

\* C8: insert_data(t, values) on an existing table t whose column count
\* differs from the number of values (none included) executes the statement
\* once, raises the store's error, commits nothing and leaves every table's
\* rows as they were.
C8_ArityMismatchLeftToStore ==
    [][ ( /\ call'.op = "insert_data"
          /\ ValidIdentifier(call'.name)
          /\ call'.name.s \in DOMAIN tables
          /\ Len(call'.data) # Len(tables[call'.name.s].columns) )
        => /\ call'.executes = 1
           /\ call'.outcome = "StoreError"
           /\ call'.commits = 0
           /\ tables' = tables ]_vars

C8_Witness ==
    /\ call.op = "insert_data"
    /\ conn = "open"
    /\ ValidIdentifier(call.name)
    /\ call.name.s \in DOMAIN tables
    /\ Len(tables[call.name.s].rows) > 0
    /\ Len(call.data) > Len(tables[call.name.s].columns)
    /\ call.executes = 1
    /\ call.outcome = "StoreError"

\* C9: when table t exists, create_table(t, cols2) with a list of column
\* definitions other than t's raises no error and changes nothing: t keeps
\* its columns and rows and every other table is unchanged.
C9_CreateExistingTableIsNoOp ==
    [][ ( /\ conn = "open"
          /\ call'.op = "create_table"
          /\ ValidIdentifier(call'.name)
          /\ call'.name.s \in DOMAIN tables
          /\ ColumnDefinitions(call'.columns)
          /\ [i \in 1..Len(call'.columns) |-> ColumnName(call'.columns[i].s)]
                 # tables[call'.name.s].columns )
        => /\ call'.outcome = "ok"
           /\ tables' = tables ]_vars

====
